---------------------------- MODULE Spec2Model ----------------------------
(***************************************************************************)
(* Model of the grounded-output verification engine of lance-mcp           *)
(* (src/src/tools/operations/validate.ts): the response parser, the        *)
(* tallies, the two F1 scores, the concurrent entailment fan-out and the   *)
(* grounding assembler of ValidateTool.execute.                            *)
(*                                                                         *)
(* Text is modelled as a sequence of tokens.  A token is a record          *)
(* [k, s]: k = "f" a run of three backticks, k = "id" a bare word,         *)
(* k = "w" white space, k = "p" a JSON punctuation character, k = "s" a    *)
(* complete JSON string literal with content s, k = "x" a fragment that is *)
(* no JSON token (an unterminated string literal, a broken fence).         *)
(***************************************************************************)
EXTENDS Integers, Sequences, FiniteSets, TLC

(***************************************************************************)
(* Bounds of the model.                                                    *)
(***************************************************************************)
MaxVerdicts == 2
MaxFacts == 2
MaxPassages == 3
MaxClaims == 2
MaxCount == 3

(***************************************************************************)
(* Tokens.                                                                 *)
(***************************************************************************)
Tok(kind, str) == [k |-> kind, s |-> str]
\* the run of three backticks that opens or closes a markdown code fence
Fence == Tok("f", "3xBACKTICK")
Json == Tok("id", "json")
Nl == Tok("w", "\n")
Sp == Tok("w", " ")
P(c) == Tok("p", c)
S(str) == Tok("s", str)
Broken(str) == Tok("x", str)

(***************************************************************************)
(* JavaScript values as they come out of JSON.parse.  Every value is a     *)
(* record of the same shape: t is the type tag, s the content of a string, *)
(* k the keys of an object in insertion order and a the elements of an     *)
(* array, or the values of an object aligned with k.                       *)
(***************************************************************************)
JUndef == [t |-> "undefined", s |-> "", k |-> <<>>, a |-> <<>>]
JNull == [t |-> "null", s |-> "", k |-> <<>>, a |-> <<>>]
JStr(str) == [t |-> "string", s |-> str, k |-> <<>>, a |-> <<>>]
JArr(elems) == [t |-> "array", s |-> "", k |-> <<>>, a |-> elems]
JObj(keys, vals) == [t |-> "object", s |-> "", k |-> keys, a |-> vals]

\* value.key as JavaScript evaluates it on a parsed value: the last member
\* with that key of an object, undefined on a string or an array.  On null
\* the access throws; callers test for null first.
GetProp(value, key) ==
    IF value.t = "object" /\ \E i \in 1..Len(value.k) : value.k[i] = key
    THEN LET i == CHOOSE j \in 1..Len(value.k) :
                      /\ value.k[j] = key
                      /\ \A m \in (j+1)..Len(value.k) : value.k[m] # key
         IN value.a[i]
    ELSE JUndef

(***************************************************************************)
(* JSON.parse over tokens: a recursive-descent parser of the JSON grammar  *)
(* restricted to strings, arrays, objects and null.  Each operator returns *)
(* [ok, v, i]: whether a value was read, the value, and the index of the   *)
(* first token after it.                                                   *)
(***************************************************************************)
RECURSIVE SkipWs(_, _)
SkipWs(toks, i) ==
    IF i <= Len(toks) /\ toks[i].k = "w" THEN SkipWs(toks, i + 1) ELSE i

PFail == [ok |-> FALSE, v |-> JUndef, i |-> 0]
POk(value, next) == [ok |-> TRUE, v |-> value, i |-> next]

IsP(toks, i, c) == i <= Len(toks) /\ toks[i] = P(c)

RECURSIVE ParseValue(_, _)
RECURSIVE ParseElements(_, _, _)
RECURSIVE ParseMembers(_, _, _, _)

\* the elements of an array after "[" or after a ","
ParseElements(toks, i0, acc) ==
    LET r == ParseValue(toks, i0) IN
    IF ~r.ok THEN PFail
    ELSE LET j == SkipWs(toks, r.i) IN
         IF IsP(toks, j, ",") THEN ParseElements(toks, j + 1, Append(acc, r.v))
         ELSE IF IsP(toks, j, "]") THEN POk(JArr(Append(acc, r.v)), j + 1)
         ELSE PFail

\* the members of an object after "{" or after a ","
ParseMembers(toks, i0, keys, vals) ==
    LET i == SkipWs(toks, i0) IN
    IF ~(i <= Len(toks) /\ toks[i].k = "s") THEN PFail
    ELSE LET c == SkipWs(toks, i + 1) IN
         IF ~IsP(toks, c, ":") THEN PFail
         ELSE LET r == ParseValue(toks, c + 1) IN
              IF ~r.ok THEN PFail
              ELSE LET j == SkipWs(toks, r.i)
                       ks == Append(keys, toks[i].s)
                       vs == Append(vals, r.v)
                   IN IF IsP(toks, j, ",") THEN ParseMembers(toks, j + 1, ks, vs)
                      ELSE IF IsP(toks, j, "}") THEN POk(JObj(ks, vs), j + 1)
                      ELSE PFail

ParseValue(toks, i0) ==
    LET i == SkipWs(toks, i0) IN
    IF i > Len(toks) THEN PFail
    ELSE IF toks[i].k = "s" THEN POk(JStr(toks[i].s), i + 1)
    ELSE IF toks[i] = Tok("id", "null") THEN POk(JNull, i + 1)
    ELSE IF toks[i] = P("[") THEN
         LET j == SkipWs(toks, i + 1) IN
         IF IsP(toks, j, "]") THEN POk(JArr(<<>>), j + 1)
         ELSE ParseElements(toks, j, <<>>)
    ELSE IF toks[i] = P("{") THEN
         LET j == SkipWs(toks, i + 1) IN
         IF IsP(toks, j, "}") THEN POk(JObj(<<>>, <<>>), j + 1)
         ELSE ParseMembers(toks, j, <<>>, <<>>)
    ELSE PFail

\* JSON.parse(text): one value, white space around it, nothing else;
\* ok = FALSE stands for the SyntaxError it throws
JSONParse(toks) ==
    LET r == ParseValue(toks, 1) IN
    IF r.ok /\ SkipWs(toks, r.i) = Len(toks) + 1 THEN [ok |-> TRUE, v |-> r.v]
    ELSE [ok |-> FALSE, v |-> JUndef]

(***************************************************************************)
(* The two replace calls of the response parser.                           *)
(***************************************************************************)
\* text.replace(/^FENCEjson\s*/, ''), FENCE being the three backticks
StripOpeningFence(toks) ==
    IF Len(toks) >= 2 /\ toks[1] = Fence /\ toks[2] = Json
    THEN SubSeq(toks, SkipWs(toks, 3), Len(toks))
    ELSE toks

RECURSIVE SkipWsBack(_, _)
SkipWsBack(toks, i) ==
    IF i >= 1 /\ toks[i].k = "w" THEN SkipWsBack(toks, i - 1) ELSE i

\* a faulty variant: the closing fence stays in the text
StripClosingFenceKept(toks) == toks

\* text.replace(/\s*FENCE$/, ''): $ is the end of the input, there is no m flag
StripClosingFence(toks) ==
    IF Len(toks) >= 1 /\ toks[Len(toks)] = Fence
    THEN SubSeq(toks, 1, SkipWsBack(toks, Len(toks) - 1))
    ELSE toks

ParseFailureMessage == "Failed to parse JSON from markdown string"

\* what an extract function hands to its caller: a payload, or the thrown
\* Error (name and message of the object built by `new Error(...)`)
Returned(value) == [ok |-> TRUE, v |-> value, name |-> "", message |-> ""]
Thrown(errName, msg) == [ok |-> FALSE, v |-> JUndef, name |-> errName, message |-> msg]

\* a faulty variant: a failed parse is swallowed and undefined is returned
ExtractKeySwallowing(markdownString, key) ==
    LET parsed == JSONParse(StripClosingFence(StripOpeningFence(markdownString))) IN
    IF parsed.ok /\ parsed.v.t # "null" THEN Returned(GetProp(parsed.v, key))
    ELSE Returned(JUndef)

\* the body shared by the two extract functions: strip, parse, read one key
ExtractKeyFromMarkdown(markdownString, key) ==
    LET jsonString == StripClosingFence(StripOpeningFence(markdownString))
        parsed == JSONParse(jsonString)
    IN IF ~parsed.ok THEN Thrown("Error", ParseFailureMessage)
       ELSE IF parsed.v.t = "null" THEN Thrown("Error", ParseFailureMessage)
       ELSE Returned(GetProp(parsed.v, key))

extractVerdictsFromMarkdown(markdownString) ==
    ExtractKeyFromMarkdown(markdownString, "verdicts")

extractFactsFromMarkdown(markdownString) ==
    ExtractKeyFromMarkdown(markdownString, "missed_facts")

(***************************************************************************)
(* The tallies of the two single-call stages, from the line after the      *)
(* response has been logged to the return of the counts.                   *)
(***************************************************************************)
Counts(y, n, i, m) == [yes |-> y, no |-> n, idk |-> i, missed |-> m]
NoCounts == Counts(0, 0, 0, 0)

\* what a stage hands to validate: its counts, or the error it throws
\* (total is the length of the parsed list, which the stage logs)
StageReturned(counts, total) ==
    [ok |-> TRUE, counts |-> counts, total |-> total, name |-> "", message |-> ""]
StageThrown(errName, msg) ==
    [ok |-> FALSE, counts |-> NoCounts, total |-> 0, name |-> errName, message |-> msg]

\* a faulty variant: a label that is none of the three counts as idk
CountVerdictOtherAsIdk(c, verdict) ==
    LET label == GetProp(verdict, "verdict") IN
    IF label = JStr("yes") THEN [c EXCEPT !.yes = @ + 1]
    ELSE IF label = JStr("no") THEN [c EXCEPT !.no = @ + 1]
    ELSE [c EXCEPT !.idk = @ + 1]

\* one step of verdicts.forEach(...) in checkOutputCorrect
CountVerdict(c, verdict) ==
    LET label == GetProp(verdict, "verdict") IN
    IF label = JStr("yes") THEN [c EXCEPT !.yes = @ + 1]
    ELSE IF label = JStr("no") THEN [c EXCEPT !.no = @ + 1]
    ELSE IF label = JStr("idk") THEN [c EXCEPT !.idk = @ + 1]
    ELSE c

RECURSIVE ForEachVerdict(_, _, _)
ForEachVerdict(verdicts, i, c) ==
    IF i > Len(verdicts) THEN c
    ELSE ForEachVerdict(verdicts, i + 1, CountVerdict(c, verdicts[i]))

\* a faulty variant: every fact counts, whatever its value
CountFactAny(c, fact) == [c EXCEPT !.missed = @ + 1]

\* one step of facts.forEach(...) in checkOutputOmissions
CountFact(c, fact) ==
    LET value == GetProp(fact, "value") IN
    IF value = JStr("high") \/ value = JStr("medium")
    THEN [c EXCEPT !.missed = @ + 1]
    ELSE c

RECURSIVE ForEachFact(_, _, _)
ForEachFact(facts, i, c) ==
    IF i > Len(facts) THEN c
    ELSE ForEachFact(facts, i + 1, CountFact(c, facts[i]))

\* list.forEach(...) on a value that is no array, or reading a property of
\* a null element, throws a TypeError
CanForEach(list) ==
    /\ list.t = "array"
    /\ \A i \in 1..Len(list.a) : list.a[i].t # "null"

\* checkOutputCorrect from the call of extractVerdictsFromMarkdown on
VerdictCountsOf(content) ==
    LET verdicts == extractVerdictsFromMarkdown(content) IN
    IF ~verdicts.ok THEN StageThrown(verdicts.name, verdicts.message)
    ELSE IF ~CanForEach(verdicts.v) THEN StageThrown("TypeError", "forEach")
    ELSE StageReturned(ForEachVerdict(verdicts.v.a, 1, NoCounts), Len(verdicts.v.a))

\* checkOutputOmissions from the call of extractFactsFromMarkdown on
FactCountsOf(content) ==
    LET facts == extractFactsFromMarkdown(content) IN
    IF ~facts.ok THEN StageThrown(facts.name, facts.message)
    ELSE IF ~CanForEach(facts.v) THEN StageThrown("TypeError", "forEach")
    ELSE StageReturned(ForEachFact(facts.v.a, 1, NoCounts), Len(facts.v.a))

(***************************************************************************)
(* Model responses: a payload, its JSON text, and the ways a model wraps   *)
(* or truncates that text.                                                 *)
(***************************************************************************)
RECURSIVE SeqsUpTo(_, _)
SeqsUpTo(set, n) ==
    IF n = 0 THEN {<<>>}
    ELSE LET shorter == SeqsUpTo(set, n - 1) IN
         shorter \cup {Append(q, x) : q \in shorter, x \in set}

\* Verdict {verdict, reason?}
VerdictItems ==
    {JObj(<<"verdict">>, <<JStr(l)>>) : l \in {"yes", "no", "idk", "maybe"}}
    \cup {JObj(<<"verdict", "reason">>, <<JStr("no"), JStr("why")>>)}

\* Fact {fact, value, reason}
FactItems ==
    {JObj(<<"fact", "value", "reason">>, <<JStr("f"), JStr(v), JStr("why")>>) :
        v \in {"high", "medium", "low", "critical"}}

\* VerdictResponse {verdicts}
VerdictPayloads ==
    {JObj(<<"verdicts">>, <<JArr(vs)>>) : vs \in SeqsUpTo(VerdictItems, MaxVerdicts)}

\* FactResponse {missed_facts}
FactPayloads ==
    {JObj(<<"missed_facts">>, <<JArr(fs)>>) : fs \in SeqsUpTo(FactItems, MaxFacts)}

\* JSON values that are no VerdictResponse and no FactResponse
OtherPayloads ==
    { JObj(<<"answers">>, <<JArr(<<>>)>>), JArr(<<>>), JStr("none"), JNull,
      JObj(<<"verdicts", "missed_facts">>, <<JNull, JStr("none")>>) }

Payloads == VerdictPayloads \cup FactPayloads \cup OtherPayloads

RECURSIVE Stringify(_)
RECURSIVE StringifyElements(_, _)
RECURSIVE StringifyMembers(_, _, _)

StringifyElements(elems, i) ==
    IF i > Len(elems) THEN <<>>
    ELSE (IF i > 1 THEN <<P(",")>> ELSE <<>>)
         \o Stringify(elems[i]) \o StringifyElements(elems, i + 1)

StringifyMembers(keys, vals, i) ==
    IF i > Len(keys) THEN <<>>
    ELSE (IF i > 1 THEN <<P(",")>> ELSE <<>>)
         \o <<S(keys[i]), P(":")>> \o Stringify(vals[i])
         \o StringifyMembers(keys, vals, i + 1)

\* JSON.stringify(value), the compact JSON text of a value
Stringify(value) ==
    IF value.t = "string" THEN <<S(value.s)>>
    ELSE IF value.t = "array" THEN <<P("[")>> \o StringifyElements(value.a, 1) \o <<P("]")>>
    ELSE IF value.t = "object"
         THEN <<P("{")>> \o StringifyMembers(value.k, value.a, 1) \o <<P("}")>>
    ELSE <<Tok("id", "null")>>

\* the same text with a blank after every token
Pretty(toks) ==
    [i \in 1..(2 * Len(toks)) |-> IF i % 2 = 1 THEN toks[(i + 1) \div 2] ELSE Sp]

\* the text cut short: its last `cut` tokens are gone and, when `partial`,
\* the first characters of the next token were still produced
Truncate(toks, cut, partial) ==
    IF cut = 0 THEN toks
    ELSE SubSeq(toks, 1, Len(toks) - cut)
         \o (IF partial THEN <<Broken("cut")>> ELSE <<>>)

Closings == {"none", "fence", "fence-newline"}

\* a way to write a JSON text into a completion
Wrappings(json) ==
    [open : BOOLEAN, nl : BOOLEAN, pretty : BOOLEAN, close : Closings,
     cut : 0..Len(json), partial : BOOLEAN]

\* (nl: the fences stand on lines of their own; the cut texts are taken in
\* compact form with such fences, and with nothing after a closing fence)
WrappingsOf(json) ==
    {w \in Wrappings(json) :
        /\ w.partial => w.cut > 0
        /\ ~w.nl => (w.open \/ w.close # "none")
        /\ w.cut > 0 => (w.nl /\ ~w.pretty /\ w.close # "fence-newline")}

Wrap(json, w) ==
    (IF w.open THEN <<Fence, Json>> \o (IF w.nl THEN <<Nl>> ELSE <<>>) ELSE <<>>)
    \o Truncate(IF w.pretty THEN Pretty(json) ELSE json,
                IF w.pretty THEN 2 * w.cut ELSE w.cut, w.partial)
    \o (CASE w.close = "none" -> <<>>
          [] w.close = "fence" -> (IF w.nl THEN <<Nl>> ELSE <<>>) \o <<Fence>>
          [] w.close = "fence-newline" -> (IF w.nl THEN <<Nl>> ELSE <<>>) \o <<Fence, Nl>>)

(***************************************************************************)
(* JavaScript numbers.  The counts are small non-negative integers, so     *)
(* (fp + fn) / 2 and tp + (fp + fn) / 2 are exact in a double and the only *)
(* rounding is that of the last division; a number is modelled as the      *)
(* exact fraction n/d in lowest terms that the double is the rounding of,  *)
(* or as NaN, or as Infinity.                                              *)
(***************************************************************************)
RECURSIVE Gcd(_, _)
Gcd(a, b) == IF b = 0 THEN a ELSE Gcd(b, a % b)

NaN == [kind |-> "NaN", n |-> 0, d |-> 0]
Infinity == [kind |-> "Infinity", n |-> 0, d |-> 0]
Frac(a, b) == LET g == Gcd(a, b) IN [kind |-> "finite", n |-> a \div g, d |-> b \div g]
Num(i) == [kind |-> "finite", n |-> i, d |-> 1]

\* x + y
NumAdd(x, y) ==
    IF x.kind = "NaN" \/ y.kind = "NaN" THEN NaN
    ELSE IF x.kind = "Infinity" \/ y.kind = "Infinity" THEN Infinity
    ELSE Frac(x.n * y.d + y.n * x.d, x.d * y.d)

\* a faulty variant: a zero divisor is guarded and the quotient forced to 0
NumDivGuarded(x, y) ==
    IF x.kind = "finite" /\ y.kind = "finite" /\ y.n # 0
    THEN Frac(x.n * y.d, x.d * y.n)
    ELSE Num(0)

\* x / y for x, y >= 0: 0/0 is NaN, a positive number over 0 is Infinity
NumDiv(x, y) ==
    IF x.kind = "NaN" \/ y.kind = "NaN" THEN NaN
    ELSE IF x.kind = "Infinity" THEN (IF y.kind = "Infinity" THEN NaN ELSE Infinity)
    ELSE IF y.kind = "Infinity" THEN Num(0)
    ELSE IF y.n = 0 THEN (IF x.n = 0 THEN NaN ELSE Infinity)
    ELSE Frac(x.n * y.d, x.d * y.n)

\* a faulty variant: the halving of fp + fn is lost
F1NoHalf(tp, fp, fn) ==
    NumDiv(Num(tp), NumAdd(Num(tp), NumAdd(Num(fp), Num(fn))))

\* tp / (tp + (fp + fn) / 2)
F1(tp, fp, fn) ==
    NumDiv(Num(tp), NumAdd(Num(tp), NumDiv(NumAdd(Num(fp), Num(fn)), Num(2))))

\* a faulty variant: the idk verdicts are left out of the false positives
JudgeScoreNoIdk(resCorrect, resHalluc) ==
    F1(resCorrect.yes, resCorrect.no, resHalluc.missed)

\* the two scores of validate from the counts of the three stages
JudgeScore(resCorrect, resHalluc) ==
    LET tp == resCorrect.yes
        fp == resCorrect.no + resCorrect.idk
        fn == resHalluc.missed
    IN F1(tp, fp, fn)

ClassifierScore(resCorrectM, resHalluc) ==
    LET tpM == resCorrectM.yes
        fpM == resCorrectM.no
        fn == resHalluc.missed
    IN F1(tpM, fpM, fn)

\* how a template literal renders a number: NaN prints as the text NaN
Render(x) ==
    IF x.kind = "finite" THEN <<"number", x.n, x.d>> ELSE <<x.kind, 0, 0>>

(***************************************************************************)
(* The grounding assembler: the loop of ValidateTool.execute over the rows *)
(* of the retrieval query.  A row is [id, full_text, text]; the document   *)
(* is the sequence of the pieces the loop concatenates.                    *)
(***************************************************************************)
PassageIds == {1, 2}
PassageTexts == {"T1", "T2"}
Passages == [id : PassageIds, full_text : PassageTexts, text : {"chunk"}]

\* a faulty variant: the seen-id test never fires and duplicates are kept
SeenBeforeNever(seenIds, row) == FALSE

\* seenIds.has(results[i].id)
SeenBefore(seenIds, row) == row.id \in seenIds

\* resultCopy.full_text + "\n" after the deletes of vector, text and loc
PiecesOf(row) == <<row.full_text, "\n">>

RECURSIVE AssembleFrom(_, _, _, _)
AssembleFrom(rows, i, seenIds, doc) ==
    IF i > Len(rows) THEN doc
    ELSE IF SeenBefore(seenIds, rows[i]) THEN AssembleFrom(rows, i + 1, seenIds, doc)
    ELSE AssembleFrom(rows, i + 1, seenIds \cup {rows[i].id}, doc \o PiecesOf(rows[i]))

\* let groundingDoc = ""; const seenIds = new Set(); for (...) {...}
BuildGroundingDoc(rows) == AssembleFrom(rows, 1, {}, <<>>)

(***************************************************************************)
(* The entailment fan-out: checkClaim and the Promise.all join of          *)
(* checkOutputClaims.                                                      *)
(***************************************************************************)
\* a promise of checkClaim: pending, fulfilled with a boolean, or rejected
Pending == [st |-> "pending", val |-> FALSE]
Fulfilled(b) == [st |-> "fulfilled", val |-> b]
Rejected == [st |-> "rejected", val |-> FALSE]

\* a faulty variant: the reply is compared without regard to case
IsSupportAnyCase(reply) == reply \in {"Yes", "yes", "YES"}

\* response.message.content === "Yes"
IsSupport(reply) == reply = "Yes"

\* a faulty variant: the join waits for every promise and ignores
\* rejections, as Promise.allSettled would
PromiseAllSettled(promises) ==
    IF \A i \in 1..Len(promises) : promises[i].st # "pending" THEN "fulfilled"
    ELSE "pending"

\* the state of Promise.all(checkPromises): rejected as soon as one promise
\* is, fulfilled once all are (at once when there is none)
PromiseAll(promises) ==
    IF \E i \in 1..Len(promises) : promises[i].st = "rejected" THEN "rejected"
    ELSE IF \A i \in 1..Len(promises) : promises[i].st = "fulfilled" THEN "fulfilled"
    ELSE "pending"

\* a faulty variant: the values are collected in the order of fulfilment
PromiseAllValuesAsFulfilled(promises, order) ==
    [i \in 1..Len(promises) |-> IF i <= Len(order) THEN promises[order[i]].val ELSE FALSE]

\* the array Promise.all fulfils with: the values in the order of the
\* promises; order is the order in which they were fulfilled
PromiseAllValues(promises, order) == [i \in 1..Len(promises) |-> promises[i].val]

\* checkResults.filter(result => result).length
RECURSIVE TrueCount(_, _)
TrueCount(checkResults, i) ==
    IF i > Len(checkResults) THEN 0
    ELSE (IF checkResults[i] THEN 1 ELSE 0) + TrueCount(checkResults, i + 1)

\* {yes: trueCount, no: checkResults.length - trueCount}
ClaimCountsOf(checkResults) ==
    LET trueCount == TrueCount(checkResults, 1) IN
    Counts(trueCount, Len(checkResults) - trueCount, 0, 0)

\* (trueCount / checkResults.length) * 100
TruePercentage(checkResults) ==
    LET q == NumDiv(Num(TrueCount(checkResults, 1)), Num(Len(checkResults))) IN
    IF q.kind = "finite" THEN Frac(q.n * 100, q.d) ELSE q

\* const sentences = JSON.parse(output); sentences.map(...): the claims, or
\* the error thrown (SyntaxError by the parse, TypeError by the call of map
\* on a value that is no array)
SentencesOf(output) ==
    LET parsed == JSONParse(output) IN
    IF ~parsed.ok THEN [ok |-> FALSE, list |-> <<>>, name |-> "SyntaxError"]
    ELSE IF parsed.v.t # "array" THEN [ok |-> FALSE, list |-> <<>>, name |-> "TypeError"]
    ELSE [ok |-> TRUE, list |-> parsed.v.a, name |-> ""]

(***************************************************************************)
(* Remote calls and audit-log records.                                     *)
(***************************************************************************)
EntailmentModel == "bespoke-minicheck"
GeneralModel == "qwen2.5-coder"
Question == "Q"

\* ollama.chat({model, messages: [{role: 'user', content: prompt}]}); the
\* prompt is kept as the values substituted into its template
ClaimCall(document, idx, claim) ==
    [model |-> EntailmentModel, stage |-> "claims", idx |-> idx,
     question |-> "", document |-> document, claim |-> claim, output |-> <<>>]
CorrectCall(groundTruth, output) ==
    [model |-> GeneralModel, stage |-> "correct", idx |-> 0,
     question |-> "", document |-> groundTruth, claim |-> JUndef, output |-> output]
\* a faulty variant: the prompt of the omission call leaves the claims out
OmissionsCallNoClaims(question, groundTruth, output) ==
    [model |-> GeneralModel, stage |-> "omissions", idx |-> 0,
     question |-> question, document |-> groundTruth, claim |-> JUndef, output |-> <<>>]

OmissionsCall(question, groundTruth, output) ==
    [model |-> GeneralModel, stage |-> "omissions", idx |-> 0,
     question |-> question, document |-> groundTruth, claim |-> JUndef, output |-> output]

\* sentences.map(sentence => this.checkClaim(groundingDoc, sentence)) up to
\* the await in each checkClaim
ClaimCalls(document, sentences) ==
    [i \in 1..Len(sentences) |-> ClaimCall(document, i, sentences[i])]

(***************************************************************************)
(* Inputs of the pipeline.                                                 *)
(***************************************************************************)
ClaimTexts == <<"A", "B", "C", "D", "E", "F">>

\* params.output: a JSON array of claims, prose, or JSON that is no array
ClaimArrays ==
    {JArr([i \in 1..n |-> JStr(ClaimTexts[i])]) : n \in 0..MaxClaims}
Prose == <<Tok("id", "A."), Sp, Tok("id", "B.")>>
Outputs ==
    {Stringify(v) : v \in ClaimArrays} \cup {Prose}
    \cup {Stringify(JStr("A")), Stringify(JObj(<<"claims">>, <<JArr(<<JStr("A")>>)>>))}

\* replies of the entailment model
Replies == {"Yes", "No"}

\* rows returned by the retrieval query
QueryResults ==
    LET p(i, t) == [id |-> i, full_text |-> t, text |-> "chunk"] IN
    { <<>>, <<p(1, "T1")>>, <<p(1, "T1"), p(2, "T2"), p(1, "T2")>> }

\* completions of the general model: the payloads of the stage and others,
\* fenced, bare, or fenced and cut short
Completions(payloads) ==
    LET fenced == [open |-> TRUE, nl |-> TRUE, pretty |-> FALSE,
                   close |-> "fence", cut |-> 0, partial |-> FALSE]
        bare == [fenced EXCEPT !.open = FALSE, !.close = "none"]
        short == [fenced EXCEPT !.close = "none", !.cut = 1]
    IN {Wrap(Stringify(pl), w) : pl \in payloads \cup OtherPayloads,
                                 w \in {fenced, bare, short}}

VerdictCompletions == Completions(VerdictPayloads)
FactCompletions == Completions(FactPayloads)

\* the outcomes of each stage on the completions it can receive
CorrectOutcomes == {VerdictCountsOf(c) : c \in VerdictCompletions}
OmissionsOutcomes == {FactCountsOf(c) : c \in FactCompletions}

(***************************************************************************)
(* State.                                                                  *)
(***************************************************************************)
VARIABLES
    \* the response parser and the tallies applied to one completion
    payload, wrapping, content, stageCalled, extracted, stageOut,
    \* the scores applied to the counts of the three stages
    scoreIn, scoreOut,
    \* the assembler applied to the rows of one query
    rows, assembled,
    \* ValidateTool.execute: position, params.output, query rows, document,
    \* returned result
    epc, output, results, groundingDoc, execResult,
    \* ValidateTool.validate: position, error it rejected with, claims,
    \* promises of checkClaim, joined array, counts of the three stages and
    \* which stages have returned, scores
    vpc, verror, sentences, checkPromises, checkResults,
    resCorrectM, resCorrect, resHalluc, returned, scores,
    \* remote calls issued so far, lines handed to logToFile so far, the
    \* stages whose chat call with the general model is in flight, the number
    \* of lines logged when validate rejected (-1 while it has not)
    issued, log, chatsInFlight, failedAt,
    \* the file system under validate.log: "ok" or "failing"
    sink

stageVars == <<payload, wrapping, content, stageCalled, extracted, stageOut>>
scoreVars == <<scoreIn, scoreOut>>
asmVars == <<rows, assembled>>
execVars == <<epc, output, results, groundingDoc, execResult>>
validateVars == <<vpc, verror, sentences, checkPromises, checkResults,
                  resCorrectM, resCorrect, resHalluc, returned, scores>>
ioVars == <<issued, log, chatsInFlight, failedAt>>
pipeVars == <<execVars, validateVars, ioVars, sink>>
pureVars == <<stageVars, scoreVars, asmVars>>
vars == <<pureVars, pipeVars>>

NoWrapping == [open |-> FALSE, nl |-> TRUE, pretty |-> FALSE, close |-> "none", cut |-> 0, partial |-> FALSE]
NoScores == [f1 |-> NaN, f1M |-> NaN, computed |-> FALSE]

StageUnused ==
    /\ payload = JUndef /\ wrapping = NoWrapping /\ content = <<>>
    /\ stageCalled = "none" /\ extracted = Thrown("", "") /\ stageOut = StageThrown("", "")
ScoreUnused ==
    /\ scoreIn = [resCorrectM |-> NoCounts, resCorrect |-> NoCounts, resHalluc |-> NoCounts]
    /\ scoreOut = NoScores
AsmUnused == rows = <<>> /\ assembled = <<"unset">>

NoResult == [isError |-> FALSE, text |-> <<"unset">>]
PipeUnused ==
    /\ epc = "idle" /\ output = <<>> /\ results = <<>> /\ groundingDoc = <<>>
    /\ execResult = NoResult
    /\ vpc = "idle" /\ verror = "" /\ sentences = <<>>
    /\ checkPromises = <<>> /\ checkResults = <<>>
    /\ resCorrectM = NoCounts /\ resCorrect = NoCounts /\ resHalluc = NoCounts
    /\ returned = {} /\ scores = NoScores
    /\ issued = <<>> /\ log = <<>> /\ chatsInFlight = {} /\ failedAt = -1
    /\ sink = "ok"

(***************************************************************************)
(* Audit-log records.                                                      *)
(***************************************************************************)
\* logToFile(data): the line handed to fs.appendFile and whether the append
\* succeeds (ok) or calls back with an error; idx and reply identify a
\* CHECK CLAIM record, ints, x and y are the numbers printed in the line
LogRec(tag, idx, reply, ints, x, y) ==
    [tag |-> tag, idx |-> idx, reply |-> reply, ints |-> ints, x |-> x, y |-> y,
     ok |-> sink = "ok"]
Line(tag) == LogRec(tag, 0, "", <<>>, <<>>, <<>>)

\* a faulty variant: the time of the last stage is not written
TimingLinesTwo ==
    << Line("Time taken for checkOutputClaims"),
       Line("Time taken for checkOutputCorrect") >>

TimingLines ==
    << Line("Time taken for checkOutputClaims"),
       Line("Time taken for checkOutputCorrect"),
       Line("Time taken for checkOutputOmissions") >>

\* the lines of validate.log: the appends that succeeded
FileLines(lg) == SelectSeq(lg, LAMBDA rec : rec.ok)

\* the reports of console.error in the callback of fs.appendFile: the
\* appends that failed
ConsoleErrors(lg) == SelectSeq(lg, LAMBDA rec : ~rec.ok)

(***************************************************************************)
(* SpecStage: a completion arrives and one of the two single-call stages   *)
(* parses and tallies it.                                                  *)
(***************************************************************************)
InitStage ==
    /\ payload \in Payloads
    /\ wrapping \in WrappingsOf(Stringify(payload))
    /\ content = Wrap(Stringify(payload), wrapping)
    /\ stageCalled = "none"
    /\ extracted = Thrown("", "")
    /\ stageOut = StageThrown("", "")
    /\ ScoreUnused /\ AsmUnused /\ PipeUnused

\* checkOutputCorrect after its response has arrived
CorrectStage ==
    /\ stageCalled = "none"
    /\ stageCalled' = "correct"
    /\ extracted' = extractVerdictsFromMarkdown(content)
    /\ stageOut' = VerdictCountsOf(content)
    /\ UNCHANGED <<payload, wrapping, content, scoreVars, asmVars, pipeVars>>

\* checkOutputOmissions after its response has arrived
OmissionsStage ==
    /\ stageCalled = "none"
    /\ stageCalled' = "omissions"
    /\ extracted' = extractFactsFromMarkdown(content)
    /\ stageOut' = FactCountsOf(content)
    /\ UNCHANGED <<payload, wrapping, content, scoreVars, asmVars, pipeVars>>

NextStage == CorrectStage \/ OmissionsStage
SpecStage == InitStage /\ [][NextStage]_vars

(***************************************************************************)
(* SpecScore: the last lines of validate applied to the three counts.      *)
(***************************************************************************)
InitScore ==
    /\ scoreIn \in [resCorrectM : {Counts(y, n, 0, 0) : y, n \in 0..MaxCount},
                    resCorrect : {Counts(y, n, i, 0) : y, n, i \in 0..MaxCount},
                    resHalluc : {Counts(0, 0, 0, m) : m \in 0..MaxCount}]
    /\ scoreOut = NoScores
    /\ StageUnused /\ AsmUnused /\ PipeUnused

Aggregate ==
    /\ ~scoreOut.computed
    /\ scoreOut' = [f1 |-> JudgeScore(scoreIn.resCorrect, scoreIn.resHalluc),
                    f1M |-> ClassifierScore(scoreIn.resCorrectM, scoreIn.resHalluc),
                    computed |-> TRUE]
    /\ UNCHANGED <<scoreIn, stageVars, asmVars, pipeVars>>

NextScore == Aggregate
SpecScore == InitScore /\ [][NextScore]_vars

(***************************************************************************)
(* SpecAssembler: the assembler applied to the rows a query returns.       *)
(***************************************************************************)
InitAssembler ==
    /\ rows \in SeqsUpTo(Passages, MaxPassages)
    /\ assembled = <<"unset">>
    /\ StageUnused /\ ScoreUnused /\ PipeUnused

Assemble ==
    /\ assembled = <<"unset">>
    /\ assembled' = BuildGroundingDoc(rows)
    /\ UNCHANGED <<rows, stageVars, scoreVars, pipeVars>>

NextAssembler == Assemble
SpecAssembler == InitAssembler /\ [][NextAssembler]_vars

(***************************************************************************)
(* Spec: one call of ValidateTool.execute and the validate call it starts. *)
(* An action is one turn of the event loop: the arrival of a result and    *)
(* every continuation that runs before the next await blocks.              *)
(***************************************************************************)
Init ==
    /\ PipeUnused
    /\ StageUnused /\ ScoreUnused /\ AsmUnused

\* execute(params) up to the await of the retrieval query
Execute(out) ==
    /\ epc = "idle"
    /\ epc' = "querying"
    /\ output' = out
    /\ UNCHANGED <<results, groundingDoc, execResult, validateVars, ioVars, sink, pureVars>>

\* the indices of the CHECK CLAIM lines in the order they were logged, which
\* is the order in which the promises were fulfilled
RECURSIVE ClaimLogOrder(_)
ClaimLogOrder(lg) ==
    IF lg = <<>> THEN <<>>
    ELSE IF Head(lg).tag = "CHECK CLAIM PROMPT"
         THEN <<Head(lg).idx>> \o ClaimLogOrder(Tail(lg))
         ELSE ClaimLogOrder(Tail(lg))

\* a faulty variant: the two calls of the general model are started
\* together once the entailment stage has returned
JoinClaimsBoth(promises, lg, calls, doc) ==
    LET joined == PromiseAllValues(promises, ClaimLogOrder(lg)) IN
    /\ checkResults' = joined
    /\ resCorrectM' = ClaimCountsOf(joined)
    /\ returned' = returned \cup {"checkOutputClaims"}
    /\ log' = Append(lg, LogRec("CHECK CLAIM TOTAL", 0, "", <<>>,
                                Render(TruePercentage(joined)), <<>>))
    /\ issued' = calls \o <<CorrectCall(doc, output), OmissionsCall(Question, doc, output)>>
    /\ chatsInFlight' = {"correct", "omissions"}
    /\ vpc' = "correct"
    /\ UNCHANGED <<verror, failedAt>>

\* checkOutputClaims after Promise.all has fulfilled, then validate up to
\* the await of the chat call of checkOutputCorrect
JoinClaims(promises, lg, calls, doc) ==
    LET joined == PromiseAllValues(promises, ClaimLogOrder(lg)) IN
    /\ checkResults' = joined
    /\ resCorrectM' = ClaimCountsOf(joined)
    /\ returned' = returned \cup {"checkOutputClaims"}
    /\ log' = Append(lg, LogRec("CHECK CLAIM TOTAL", 0, "", <<>>,
                                Render(TruePercentage(joined)), <<>>))
    /\ issued' = Append(calls, CorrectCall(doc, output))
    /\ chatsInFlight' = {"correct"}
    /\ vpc' = "correct"
    /\ UNCHANGED <<verror, failedAt>>

\* a faulty variant: the END VALIDATION line is written on the way out of
\* validate, also when it rejects
FailValidateLoggingEnd(name, lg) ==
    /\ vpc' = "failed"
    /\ verror' = name
    /\ log' = Append(lg, LogRec("END VALIDATION", 0, "", <<>>, Render(NaN), Render(NaN)))
    /\ failedAt' = Len(lg)
    /\ UNCHANGED <<checkResults, resCorrectM, returned, issued>>

\* validate rejects with the error thrown in it
FailValidate(name, lg) ==
    /\ vpc' = "failed"
    /\ verror' = name
    /\ log' = lg
    /\ failedAt' = Len(lg)
    /\ UNCHANGED <<checkResults, resCorrectM, returned, issued>>

\* a faulty variant: the append is synchronous and its error is thrown
\* into the stage that logs
StageFailsOnLog(r) == ~r.ok \/ sink = "failing"

\* a single-call stage throws exactly when its parser or its tally does;
\* logToFile returns before the append is attempted and throws nothing
StageFails(r) == ~r.ok

\* BaseTool.handleError(error), whose body is in base/tool.js: the failure
\* as an error outcome for the caller of execute
handleError(error) == [isError |-> TRUE, text |-> <<"error">>]

\* a faulty variant: execute awaits validate, so that an output that
\* cannot be parsed is caught by execute and returned as an error
QueryResolveAwaiting(rs) ==
    /\ epc = "querying"
    /\ LET doc == BuildGroundingDoc(rs)
           parsed == SentencesOf(output)
           lg == Append(log, Line("BEGINNING VALIDATION"))
           calls == issued \o ClaimCalls(doc, parsed.list)
           promises == [i \in 1..Len(parsed.list) |-> Pending]
       IN /\ results' = rs
          /\ groundingDoc' = doc
          /\ output' = output
          /\ IF ~parsed.ok
             THEN /\ FailValidate(parsed.name, lg)
                  /\ execResult' = handleError(parsed.name)
                  /\ epc' = "caught"
                  /\ UNCHANGED <<sentences, checkPromises, chatsInFlight>>
             ELSE /\ sentences' = parsed.list
                  /\ checkPromises' = promises
                  /\ execResult' = [isError |-> FALSE, text |-> doc]
                  /\ epc' = "returned"
                  /\ IF PromiseAll(promises) = "fulfilled"
                     THEN JoinClaims(promises, lg, calls, doc)
                     ELSE /\ vpc' = "claims"
                          /\ issued' = calls
                          /\ log' = lg
                          /\ UNCHANGED <<verror, checkResults, resCorrectM, returned,
                                         chatsInFlight, failedAt>>
    /\ UNCHANGED <<resCorrect, resHalluc, scores, sink, pureVars>>

\* the query resolves: the assembler loop, the start of validate up to its
\* first await, and the return of execute
QueryResolve(rs) ==
    /\ epc = "querying"
    /\ LET doc == BuildGroundingDoc(rs)
           parsed == SentencesOf(output)
           lg == Append(log, Line("BEGINNING VALIDATION"))
           calls == issued \o ClaimCalls(doc, parsed.list)
           promises == [i \in 1..Len(parsed.list) |-> Pending]
       IN /\ results' = rs
          /\ groundingDoc' = doc
          /\ execResult' = [isError |-> FALSE, text |-> doc]
          /\ epc' = "returned"
          /\ output' = output
          /\ IF ~parsed.ok
             THEN /\ FailValidate(parsed.name, lg)
                  /\ UNCHANGED <<sentences, checkPromises, chatsInFlight>>
             ELSE /\ sentences' = parsed.list
                  /\ checkPromises' = promises
                  /\ IF PromiseAll(promises) = "fulfilled"
                     THEN JoinClaims(promises, lg, calls, doc)
                     ELSE /\ vpc' = "claims"
                          /\ issued' = calls
                          /\ log' = lg
                          /\ UNCHANGED <<verror, checkResults, resCorrectM, returned,
                                         chatsInFlight, failedAt>>
    /\ UNCHANGED <<resCorrect, resHalluc, scores, sink, pureVars>>

\* a faulty variant: validate is started before the query is awaited, so
\* that its first line is logged although the query rejects
QueryRejectAfterStart ==
    /\ epc = "querying"
    /\ epc' = "caught"
    /\ execResult' = handleError("query rejected")
    /\ log' = Append(log, Line("BEGINNING VALIDATION"))
    /\ UNCHANGED <<output, results, groundingDoc, validateVars, issued,
                   chatsInFlight, failedAt, sink, pureVars>>

\* the query rejects: the await throws and the catch of execute returns
\* handleError(error)
QueryReject ==
    /\ epc = "querying"
    /\ epc' = "caught"
    /\ execResult' = handleError("query rejected")
    /\ UNCHANGED <<output, results, groundingDoc, validateVars, ioVars, sink, pureVars>>

\* a faulty variant: the first rejection cancels the calls still in flight
AfterSettleCancelling(promises, lg) ==
    /\ IF vpc = "claims" /\ PromiseAll(promises) = "fulfilled"
       THEN /\ checkPromises' = promises
            /\ JoinClaims(promises, lg, issued, groundingDoc)
       ELSE IF vpc = "claims" /\ PromiseAll(promises) = "rejected"
       THEN /\ checkPromises' = [i \in 1..Len(promises) |->
                                   IF promises[i].st = "pending" THEN Rejected
                                   ELSE promises[i]]
            /\ FailValidate("chat rejected", lg)
            /\ UNCHANGED chatsInFlight
       ELSE /\ checkPromises' = promises
            /\ log' = lg
            /\ UNCHANGED <<vpc, verror, checkResults, resCorrectM, returned, issued,
                           chatsInFlight, failedAt>>
    /\ UNCHANGED <<execVars, sentences, resCorrect, resHalluc, scores, sink, pureVars>>

\* what follows the settling of one checkClaim promise: nothing while
\* Promise.all is pending or validate is no longer waiting for it, the
\* join when it fulfils, the rejection of validate when it rejects
AfterSettle(promises, lg) ==
    /\ checkPromises' = promises
    /\ IF vpc = "claims" /\ PromiseAll(promises) = "fulfilled"
       THEN JoinClaims(promises, lg, issued, groundingDoc)
       ELSE IF vpc = "claims" /\ PromiseAll(promises) = "rejected"
       THEN /\ FailValidate("chat rejected", lg)
            /\ UNCHANGED chatsInFlight
       ELSE /\ log' = lg
            /\ UNCHANGED <<vpc, verror, checkResults, resCorrectM, returned, issued,
                           chatsInFlight, failedAt>>
    /\ UNCHANGED <<execVars, sentences, resCorrect, resHalluc, scores, sink, pureVars>>

\* a faulty variant: a reply that arrives after validate has failed is not
\* logged
FulfilClaimQuietAfterFailure(i, reply) ==
    /\ i \in 1..Len(checkPromises)
    /\ checkPromises[i].st = "pending"
    /\ AfterSettle([checkPromises EXCEPT ![i] = Fulfilled(IsSupport(reply))],
                   IF vpc = "claims"
                   THEN Append(log, LogRec("CHECK CLAIM PROMPT", i, reply, <<>>, <<>>, <<>>))
                   ELSE log)

\* the chat call of checkClaim i resolves with a reply
FulfilClaim(i, reply) ==
    /\ i \in 1..Len(checkPromises)
    /\ checkPromises[i].st = "pending"
    /\ AfterSettle([checkPromises EXCEPT ![i] = Fulfilled(IsSupport(reply))],
                   Append(log, LogRec("CHECK CLAIM PROMPT", i, reply, <<>>, <<>>, <<>>)))

\* the chat call of checkClaim i rejects
RejectClaim(i) ==
    /\ i \in 1..Len(checkPromises)
    /\ checkPromises[i].st = "pending"
    /\ AfterSettle([checkPromises EXCEPT ![i] = Rejected], log)

\* the chat call of checkOutputCorrect resolves with a completion on which
\* the tally has outcome r, then validate up to the await of the chat call
\* of checkOutputOmissions: what this does to the call
CorrectArrives(r) ==
    /\ vpc = "correct"
    /\ LET lg == Append(log, Line("CHECK CORRECT PROMPT"))
       IN IF StageFails(r)
          THEN /\ FailValidate(r.name, lg)
               /\ chatsInFlight' = chatsInFlight \ {"correct"}
               /\ UNCHANGED resCorrect
          ELSE /\ resCorrect' = r.counts
               /\ returned' = returned \cup {"checkOutputCorrect"}
               /\ log' = Append(lg, LogRec("VERDICT COUNTS", 0, "",
                              <<r.total, r.counts.yes, r.counts.no, r.counts.idk>>,
                              <<>>, <<>>))
               /\ issued' = Append(issued, OmissionsCall(Question, groundingDoc, output))
               /\ chatsInFlight' = (chatsInFlight \ {"correct"}) \cup {"omissions"}
               /\ vpc' = "omissions"
               /\ UNCHANGED <<verror, checkResults, resCorrectM, failedAt>>
    /\ UNCHANGED <<execVars, sentences, checkPromises, resHalluc, scores, sink>>

ResolveCorrect(r) ==
    /\ CorrectArrives(r)
    /\ UNCHANGED pureVars

\* the same with the completion itself, the payload the parser returns for
\* it and the outcome of the tally kept
ResolveCorrectWith(completion) ==
    /\ CorrectArrives(VerdictCountsOf(completion))
    /\ content' = completion
    /\ stageCalled' = "correct"
    /\ extracted' = extractVerdictsFromMarkdown(completion)
    /\ stageOut' = VerdictCountsOf(completion)
    /\ UNCHANGED <<payload, wrapping, scoreVars, asmVars>>

\* a faulty variant: a rejected contradiction call is issued once more
RejectCorrectRetry ==
    /\ vpc = "correct"
    /\ IF Len(SelectSeq(issued, LAMBDA c : c.stage = "correct")) < 2
       THEN /\ issued' = Append(issued, CorrectCall(groundingDoc, output))
            /\ UNCHANGED <<vpc, verror, log, failedAt, checkResults, resCorrectM,
                           returned, chatsInFlight>>
       ELSE /\ FailValidate("chat rejected", log)
            /\ chatsInFlight' = chatsInFlight \ {"correct"}
    /\ UNCHANGED <<execVars, sentences, checkPromises, resCorrect, resHalluc, scores,
                   sink, pureVars>>

\* the chat call of checkOutputCorrect rejects
RejectCorrect ==
    /\ vpc = "correct"
    /\ FailValidate("chat rejected", log)
    /\ chatsInFlight' = chatsInFlight \ {"correct"}
    /\ UNCHANGED <<execVars, sentences, checkPromises, resCorrect, resHalluc, scores,
                   sink, pureVars>>

\* the chat call of checkOutputOmissions resolves with a completion on
\* which the tally has outcome r, then the timing lines, the two scores and
\* the END VALIDATION line
ResolveOmissions(r) ==
    /\ vpc = "omissions"
    /\ LET lg == Append(log, Line("CHECK OMISSIONS"))
           f1 == JudgeScore(resCorrect, r.counts)
           f1M == ClassifierScore(resCorrectM, r.counts)
       IN IF StageFails(r)
          THEN /\ FailValidate(r.name, lg)
               /\ UNCHANGED <<resHalluc, scores>>
          ELSE /\ resHalluc' = r.counts
               /\ returned' = returned \cup {"checkOutputOmissions"}
               /\ scores' = [f1 |-> f1, f1M |-> f1M, computed |-> TRUE]
               /\ log' = Append(lg, LogRec("MISSED COUNTS", 0, "", <<r.total>>, <<>>, <<>>))
                         \o TimingLines
                         \o <<LogRec("END VALIDATION", 0, "", <<>>, Render(f1), Render(f1M))>>
               /\ vpc' = "done"
               /\ UNCHANGED <<verror, checkResults, resCorrectM, issued, failedAt>>
    /\ chatsInFlight' = chatsInFlight \ {"omissions"}
    /\ UNCHANGED <<execVars, sentences, checkPromises, resCorrect, sink, pureVars>>

\* the chat call of checkOutputOmissions rejects
RejectOmissions ==
    /\ vpc = "omissions"
    /\ FailValidate("chat rejected", log)
    /\ chatsInFlight' = chatsInFlight \ {"omissions"}
    /\ UNCHANGED <<execVars, sentences, checkPromises, resCorrect, resHalluc, scores,
                   sink, pureVars>>

\* the file system under validate.log starts to fail while the call is in
\* progress: every append attempted from now on calls back with an error
SinkBreaks ==
    /\ sink = "ok"
    /\ \/ epc \in {"idle", "querying"}
       \/ vpc \in {"claims", "correct", "omissions"}
       \/ \E i \in 1..Len(checkPromises) : checkPromises[i].st = "pending"
    /\ sink' = "failing"
    /\ UNCHANGED <<execVars, validateVars, ioVars, pureVars>>

Next ==
    \/ \E out \in Outputs : Execute(out)
    \/ \E rs \in QueryResults : QueryResolve(rs)
    \/ QueryReject
    \/ \E i \in 1..MaxClaims, reply \in Replies : FulfilClaim(i, reply)
    \/ \E i \in 1..MaxClaims : RejectClaim(i)
    \/ \E r \in CorrectOutcomes : ResolveCorrect(r)
    \/ RejectCorrect
    \/ \E r \in OmissionsOutcomes : ResolveOmissions(r)
    \/ RejectOmissions

Spec == Init /\ [][Next]_vars

(***************************************************************************)
(* SpecJudge: a call whose entailment calls are all answered Yes, with the *)
(* completion the contradiction judge receives kept in the state.          *)
(***************************************************************************)
NextJudge ==
    \/ \E out \in {Stringify(v) : v \in ClaimArrays} : Execute(out)
    \/ \E rs \in {q \in QueryResults : Len(q) = 1} : QueryResolve(rs)
    \/ \E i \in 1..MaxClaims : FulfilClaim(i, "Yes")
    \/ \E completion \in VerdictCompletions : ResolveCorrectWith(completion)
    \/ \E r \in OmissionsOutcomes : ResolveOmissions(r)

SpecJudge == Init /\ [][NextJudge]_vars

(***************************************************************************)
(* SpecSink: the same call on a file system that can start to fail.        *)
(***************************************************************************)
NextSink ==
    \/ Next
    \/ SinkBreaks

SpecSink == Init /\ [][NextSink]_vars

(***************************************************************************)
(* SpecClaim: one checkClaim call and the replies it can receive.  The     *)
(* initial states are those in which execute has returned and validate     *)
(* awaits the entailment call of a claim list of one claim.                *)
(***************************************************************************)
\* replies of the entailment model, the affirmative one and near misses
ClaimReplies == {"Yes", "yes", "YES", "Yes.", "Yes ", "", "No"}

InitClaim ==
    /\ sink = "ok"
    /\ \E rs \in QueryResults, c \in 1..Len(ClaimTexts) :
          LET doc == BuildGroundingDoc(rs)
              out == Stringify(JArr(<<JStr(ClaimTexts[c])>>))
          IN /\ epc = "returned" /\ output = out /\ results = rs
             /\ groundingDoc = doc
             /\ execResult = [isError |-> FALSE, text |-> doc]
             /\ sentences = SentencesOf(out).list
             /\ issued = ClaimCalls(doc, SentencesOf(out).list)
    /\ vpc = "claims" /\ verror = ""
    /\ checkPromises = <<Pending>> /\ checkResults = <<>>
    /\ resCorrectM = NoCounts /\ resCorrect = NoCounts /\ resHalluc = NoCounts
    /\ returned = {} /\ scores = NoScores
    /\ log = <<Line("BEGINNING VALIDATION")>>
    /\ chatsInFlight = {} /\ failedAt = -1
    /\ StageUnused /\ ScoreUnused /\ AsmUnused

NextClaim ==
    \/ \E reply \in ClaimReplies : FulfilClaim(1, reply)
    \/ RejectClaim(1)

SpecClaim == InitClaim /\ [][NextClaim]_vars

(***************************************************************************)
(* Properties of the assembler (SpecAssembler).                            *)
(***************************************************************************)
\* the positions of the rows whose id occurs at no earlier position
FirstSeen(rs) ==
    {i \in 1..Len(rs) : \A j \in 1..(i - 1) : rs[j].id # rs[i].id}

\* C1: the grounding document is the full text of each distinct id, once,
\* in first-seen order, each followed by a newline; a later row with an
\* id already seen contributes nothing.
C1_GroundingDocument ==
    assembled # <<"unset">> =>
        LET fs == FirstSeen(rows) IN
        /\ Len(assembled) = 2 * Cardinality(fs)
        /\ \A i \in fs :
              LET k == Cardinality({j \in fs : j <= i}) IN
              /\ assembled[2 * k - 1] = rows[i].full_text
              /\ assembled[2 * k] = "\n"

\* a query result with a repeated id whose later row has another text
C1_Witness ==
    /\ assembled # <<"unset">>
    /\ Len(rows) = 3
    /\ rows[1].id = rows[3].id /\ rows[1].full_text # rows[3].full_text
    /\ rows[2].id # rows[1].id
    /\ Len(assembled) = 4

(***************************************************************************)
(* Properties of the response parser and the tallies (SpecStage).          *)
(***************************************************************************)
StageKey == IF stageCalled = "correct" THEN "verdicts" ELSE "missed_facts"

\* the JSON text is complete and white space at most follows it
MissingClosingFence == wrapping.open /\ wrapping.close = "none" /\ wrapping.cut = 0
TruncatedJson == wrapping.cut > 0

\* C4 as stated: a response missing the closing fence, or with truncated
\* JSON, makes the parser raise the parse failure and return no payload.
C4_AsStated ==
    (/\ stageCalled # "none"
     /\ payload \in VerdictPayloads \cup FactPayloads
     /\ (MissingClosingFence \/ TruncatedJson)) =>
        (~extracted.ok /\ extracted.message = ParseFailureMessage)

\* C4 amended: truncated JSON makes the parser throw an Error with the
\* fixed parse-failure message and return no payload; a response that only
\* lacks the closing fence around complete JSON is parsed and its payload
\* returned.
C4_TruncatedFailsUnclosedParses ==
    stageCalled # "none" =>
        /\ TruncatedJson =>
              /\ ~extracted.ok
              /\ extracted.name = "Error"
              /\ extracted.message = ParseFailureMessage
              /\ extracted.v = JUndef
        /\ (MissingClosingFence /\ payload.t = "object") =>
              /\ extracted.ok
              /\ extracted.v = GetProp(payload, StageKey)

\* both halves happen: a truncated fenced response has been rejected ...
C4_Witness ==
    /\ stageCalled = "correct"
    /\ payload \in VerdictPayloads /\ Len(GetProp(payload, "verdicts").a) = 1
    /\ wrapping.open /\ wrapping.close = "none" /\ wrapping.cut = 1
    /\ ~extracted.ok

\* ... and the verdicts of an unclosed fenced response have been returned
C4_UnclosedWitness ==
    /\ stageCalled = "correct"
    /\ payload \in VerdictPayloads /\ Len(GetProp(payload, "verdicts").a) = 1
    /\ MissingClosingFence
    /\ extracted.ok /\ extracted.v.t = "array"

\* the JSON text of the payload between an opening and a closing fence
FullyFenced == wrapping.open /\ wrapping.close = "fence" /\ wrapping.cut = 0
\* the JSON text of the payload and nothing else
Unfenced == ~wrapping.open /\ wrapping.close = "none" /\ wrapping.cut = 0

\* C5: parsing the JSON text of a payload object, fenced or bare, returns
\* the list under the stage's key exactly as it is in the payload.
C5_RoundTrip ==
    (stageCalled # "none" /\ payload.t = "object" /\ (FullyFenced \/ Unfenced)) =>
        /\ extracted.ok
        /\ extracted.v = GetProp(payload, StageKey)

\* a fenced two-verdict response has been parsed back to its two verdicts
C5_Witness ==
    /\ stageCalled = "correct" /\ FullyFenced
    /\ payload \in VerdictPayloads
    /\ extracted.ok /\ extracted.v.t = "array" /\ Len(extracted.v.a) = 2
    /\ extracted.v.a[1] # extracted.v.a[2]

\* C8: the missed count is the number of facts whose value is exactly
\* "high" or "medium"; a fact of any other value does not count.
C8_MissedCount ==
    (stageCalled = "omissions" /\ stageOut.ok) =>
        stageOut.counts.missed =
            Cardinality({i \in 1..Len(extracted.v.a) :
                GetProp(extracted.v.a[i], "value").s \in {"high", "medium"}})

\* a list with one counted and one uncounted fact has been tallied
C8_Witness ==
    /\ stageCalled = "omissions" /\ stageOut.ok
    /\ Len(extracted.v.a) = 2
    /\ GetProp(extracted.v.a[1], "value") = JStr("low")
    /\ GetProp(extracted.v.a[2], "value") = JStr("medium")
    /\ stageOut.counts.missed = 1

(***************************************************************************)
(* Properties of the scores (SpecScore).                                   *)
(***************************************************************************)
\* x is the fraction a/b
IsFraction(x, a, b) == x.kind = "finite" /\ x.n * b = x.d * a

\* C7: the judge-based score is TP / (TP + (FP + FN) / 2) with TP the yes
\* verdicts, FP the no and idk verdicts and FN the missed count that also
\* enters the classifier-based score; {yes 3, no 1, idk 1} and 2 missed
\* facts give 0.6.
C7_JudgeScore ==
    scoreOut.computed =>
        LET tp == scoreIn.resCorrect.yes
            fp == scoreIn.resCorrect.no + scoreIn.resCorrect.idk
            fn == scoreIn.resHalluc.missed
            tpM == scoreIn.resCorrectM.yes
            fpM == scoreIn.resCorrectM.no
        IN /\ (2 * tp + fp + fn # 0) => IsFraction(scoreOut.f1, 2 * tp, 2 * tp + fp + fn)
           /\ (2 * tpM + fpM + fn # 0) => IsFraction(scoreOut.f1M, 2 * tpM, 2 * tpM + fpM + fn)
           /\ (tp = 3 /\ scoreIn.resCorrect.no = 1 /\ scoreIn.resCorrect.idk = 1 /\ fn = 2)
                 => scoreOut.f1 = [kind |-> "finite", n |-> 3, d |-> 5]

\* the example of the claim has been scored
C7_Witness ==
    /\ scoreOut.computed
    /\ scoreIn.resCorrect = Counts(3, 1, 1, 0)
    /\ scoreIn.resHalluc.missed = 2
    /\ scoreOut.f1 = [kind |-> "finite", n |-> 3, d |-> 5]

(***************************************************************************)
(* Properties of the pipeline (Spec).                                      *)
(***************************************************************************)
\* the entailment calls issued so far
ClaimCallsIssued == SelectSeq(issued, LAMBDA c : c.stage = "claims")

\* the reply logged for claim i
ReplyTo(i) ==
    (CHOOSE rec \in {log[j] : j \in 1..Len(log)} :
        rec.tag = "CHECK CLAIM PROMPT" /\ rec.idx = i).reply

\* C2: when all calls succeed, checkOutputClaims has issued one entailment
\* call per claim, N in all, its i-th result is the support of the i-th
\* claim whatever the order in which the calls resolved, and yes + no = N.
C2_OneCallPerClaimAligned ==
    "checkOutputClaims" \in returned =>
        LET N == Len(sentences) IN
        /\ Len(ClaimCallsIssued) = N
        /\ \A i \in 1..N : /\ ClaimCallsIssued[i].claim = sentences[i]
                           /\ ClaimCallsIssued[i].model = EntailmentModel
        /\ Len(checkResults) = N
        /\ \A i \in 1..N : checkResults[i] = (ReplyTo(i) = "Yes")
        /\ resCorrectM.yes + resCorrectM.no = N
        /\ resCorrectM.yes = Cardinality({i \in 1..N : ReplyTo(i) = "Yes"})

\* two claims, the second answered first and differently from the first
C2_Witness ==
    /\ "checkOutputClaims" \in returned
    /\ Len(sentences) = 2
    /\ ClaimLogOrder(log) = <<2, 1>>
    /\ ReplyTo(1) = "Yes" /\ ReplyTo(2) = "No"
    /\ checkResults = <<TRUE, FALSE>>

\* C3: once one of the entailment calls has rejected, checkOutputClaims
\* has failed as a whole: validate is rejected, and there are no counts
\* and no boolean array, whichever call rejected and in whatever order.
C3_RejectionFailsStage ==
    (\E i \in 1..Len(checkPromises) : checkPromises[i].st = "rejected") =>
        /\ vpc = "failed"
        /\ "checkOutputClaims" \notin returned
        /\ checkResults = <<>>
        /\ resCorrectM = NoCounts

\* the last call to settle rejected after its sibling had been fulfilled
C3_Witness ==
    /\ Len(checkPromises) = 2
    /\ checkPromises[1].st = "fulfilled" /\ checkPromises[1].val
    /\ checkPromises[2].st = "rejected"
    /\ vpc = "failed"

\* C6: the classifier-based score is TP / (TP + (FP + FN) / 2) with TP the
\* number of true entailment results, FP the number of false ones and FN
\* the missed count; results [true, false] and 1 missed fact give 0.5.
C6_ClassifierScore ==
    scores.computed =>
        LET tp == Cardinality({i \in 1..Len(checkResults) : checkResults[i]})
            fp == Cardinality({i \in 1..Len(checkResults) : ~checkResults[i]})
            fn == resHalluc.missed
        IN /\ (2 * tp + fp + fn # 0) => IsFraction(scores.f1M, 2 * tp, 2 * tp + fp + fn)
           /\ (checkResults = <<TRUE, FALSE>> /\ fn = 1)
                 => scores.f1M = [kind |-> "finite", n |-> 1, d |-> 2]

\* the example of the claim has been scored
C6_Witness ==
    /\ vpc = "done" /\ scores.computed
    /\ checkResults = <<TRUE, FALSE>>
    /\ resHalluc.missed = 1
    /\ scores.f1M = [kind |-> "finite", n |-> 1, d |-> 2]

\* C9: when TP = FP = FN = 0 for a score, validate completes and the END
\* VALIDATION line shows that score as NaN, not as 0 or 1.
C9_UndefinedScoreIsNaN ==
    scores.computed =>
        /\ vpc = "done"
        /\ log[Len(log)].tag = "END VALIDATION"
        /\ (resCorrect.yes = 0 /\ resCorrect.no + resCorrect.idk = 0 /\ resHalluc.missed = 0)
              => (scores.f1 = NaN /\ log[Len(log)].x = <<"NaN", 0, 0>>)
        /\ (resCorrectM.yes = 0 /\ resCorrectM.no = 0 /\ resHalluc.missed = 0)
              => (scores.f1M = NaN /\ log[Len(log)].y = <<"NaN", 0, 0>>)

\* an empty claim list with no verdicts and no counted omission was scored
C9_Witness ==
    /\ vpc = "done"
    /\ sentences = <<>>
    /\ resCorrect = NoCounts /\ resHalluc = NoCounts
    /\ log[Len(log)].x = <<"NaN", 0, 0>> /\ log[Len(log)].y = <<"NaN", 0, 0>>

\* the segments of a text that are not white space, each as one claim
Segments(text) ==
    LET kept == SelectSeq(text, LAMBDA tok : tok.k # "w") IN
    [i \in 1..Len(kept) |-> JStr(kept[i].s)]

\* C10 as stated: the claims are the elements of the output when it is a
\* JSON array and its non-blank segments otherwise, so that an output that
\* is no JSON array does not fail the entailment stage.
C10_AsStated ==
    vpc # "idle" =>
        LET parsed == JSONParse(output) IN
        IF parsed.ok /\ parsed.v.t = "array"
        THEN sentences = parsed.v.a
        ELSE /\ sentences = Segments(output)
             /\ verror \notin {"SyntaxError", "TypeError"}

\* the tags of the lines handed to logToFile so far
Logged(tag) == \E j \in 1..Len(log) : log[j].tag = tag

\* the stages whose remote response has arrived
ResponseLogged(stage) ==
    CASE stage = "checkOutputClaims" -> Logged("CHECK CLAIM PROMPT")
      [] stage = "checkOutputCorrect" -> Logged("CHECK CORRECT PROMPT")
      [] stage = "checkOutputOmissions" -> Logged("CHECK OMISSIONS")

\* C11: a failure in any one of the three stages prevents the report: when
\* a call of a stage has rejected, or the response of a stage has arrived
\* and the stage has not returned its counts, validate has rejected; and
\* once validate has rejected there is no END VALIDATION line and no score.
C11_FailurePreventsReport ==
    /\ (\E i \in 1..Len(checkPromises) : checkPromises[i].st = "rejected")
          => vpc = "failed"
    /\ \A stage \in {"checkOutputCorrect", "checkOutputOmissions"} :
          (ResponseLogged(stage) /\ stage \notin returned) => vpc = "failed"
    /\ verror # "" => vpc = "failed"
    /\ vpc = "failed" =>
          /\ ~Logged("END VALIDATION")
          /\ scores = NoScores
          /\ returned # {"checkOutputClaims", "checkOutputCorrect", "checkOutputOmissions"}
    /\ Logged("END VALIDATION") =>
          /\ vpc = "done"
          /\ returned = {"checkOutputClaims", "checkOutputCorrect", "checkOutputOmissions"}

\* the response of the omission stage arrived and could not be parsed,
\* after the two earlier stages had returned their counts
C11_Witness ==
    /\ vpc = "failed" /\ verror = "Error"
    /\ Logged("CHECK OMISSIONS")
    /\ returned = {"checkOutputClaims", "checkOutputCorrect"}
    /\ resCorrect.yes > 0
    /\ ~Logged("END VALIDATION")

(***************************************************************************)
(* Properties of checkClaim (SpecClaim).                                   *)
(***************************************************************************)
\* the response of the entailment call of claim i has arrived
ClaimLogged(i) ==
    \E j \in 1..Len(log) : log[j].tag = "CHECK CLAIM PROMPT" /\ log[j].idx = i

\* C12: whatever the entailment model replies, checkClaim is fulfilled and
\* not rejected, with true exactly when the reply is the string "Yes"; the
\* replies "yes", "YES", "Yes.", "Yes " and the empty reply give false and
\* are counted under no.
C12_SupportIffExactlyYes ==
    \A i \in 1..Len(checkPromises) :
        ClaimLogged(i) =>
            /\ checkPromises[i].st = "fulfilled"
            /\ checkPromises[i].val <=> (ReplyTo(i) = "Yes")
            /\ ReplyTo(i) \in {"yes", "YES", "Yes.", "Yes ", ""} =>
                  /\ ~checkPromises[i].val
                  /\ verror = ""
                  /\ Len(checkPromises) = 1 => (checkResults = <<FALSE>>
                                                 /\ resCorrectM = Counts(0, 1, 0, 0))

\* a reply that differs from "Yes" by a trailing blank was counted under no
C12_Witness ==
    /\ ClaimLogged(1) /\ ReplyTo(1) = "Yes "
    /\ checkPromises = <<Fulfilled(FALSE)>>
    /\ resCorrectM = Counts(0, 1, 0, 0)
    /\ vpc = "correct"

(***************************************************************************)
(* Further properties of the pipeline (Spec; C14 under SpecSink).          *)
(***************************************************************************)
\* C13: when the retrieval query has failed, execute has issued no model
\* call, validate has not been started, nothing has been handed to the
\* audit log, and the caller has been given an error outcome.
C13_QueryFailureAborts ==
    epc = "caught" =>
        /\ issued = <<>> /\ chatsInFlight = {} /\ checkPromises = <<>>
        /\ vpc = "idle" /\ sentences = <<>> /\ scores = NoScores
        /\ log = <<>>
        /\ results = <<>> /\ groundingDoc = <<>>
        /\ execResult.isError

\* the query failed in a call whose output holds two claims
C13_Witness ==
    /\ epc = "caught"
    /\ execResult.isError
    /\ SentencesOf(output).ok /\ Len(SentencesOf(output).list) = 2

\* the errors validate can reject with: those of JSON.parse and map on the
\* output, of the parser of a response, of a tally, and of a chat call
ValidateErrors == {"SyntaxError", "TypeError", "Error", "chat rejected"}

AllStages == {"checkOutputClaims", "checkOutputCorrect", "checkOutputOmissions"}

\* C14: an append that fails is reported by console.error and has no other
\* effect: validate never rejects because of it, and with failed appends
\* validate still goes through the three stages to the END VALIDATION
\* line, with the scores that the counts of the stages determine.
C14_WriteFailureSuppressed ==
    /\ \A j \in 1..Len(log) :
          ~log[j].ok => /\ \E k \in 1..Len(ConsoleErrors(log)) : ConsoleErrors(log)[k] = log[j]
                        /\ \A k \in 1..Len(FileLines(log)) : FileLines(log)[k] # log[j]
    /\ vpc = "failed" => verror \in ValidateErrors
    /\ vpc = "done" =>
          LET tp == Cardinality({i \in 1..Len(checkResults) : checkResults[i]})
              fp == Cardinality({i \in 1..Len(checkResults) : ~checkResults[i]})
              fn == resHalluc.missed
              jp == resCorrect.yes
              jn == resCorrect.no + resCorrect.idk
              last == log[Len(log)]
          IN /\ returned = AllStages
             /\ Len(issued) = Len(sentences) + 2
             /\ last.tag = "END VALIDATION"
             /\ last.x = Render(scores.f1) /\ last.y = Render(scores.f1M)
             /\ (2 * tp + fp + fn # 0) => IsFraction(scores.f1M, 2 * tp, 2 * tp + fp + fn)
             /\ (2 * jp + jn + fn # 0) => IsFraction(scores.f1, 2 * jp, 2 * jp + jn + fn)
             /\ (2 * tp + fp + fn = 0) => scores.f1M = NaN
             /\ (2 * jp + jn + fn = 0) => scores.f1 = NaN

\* every append of a validate call failed, from its first line on, and the
\* call ended with the score of results [true, false] and one missed fact
C14_Witness ==
    /\ vpc = "done"
    /\ log # <<>> /\ ConsoleErrors(log) = log /\ FileLines(log) = <<>>
    /\ log[1].tag = "BEGINNING VALIDATION"
    /\ checkResults = <<TRUE, FALSE>> /\ resHalluc.missed = 1
    /\ scores.f1M = [kind |-> "finite", n |-> 1, d |-> 2]

\* the calls issued so far for a stage of the general model
CallsOf(stage) == SelectSeq(issued, LAMBDA c : c.stage = stage)

\* the position of a stage in validate
StageRank(stage) ==
    CASE stage = "claims" -> 1 [] stage = "correct" -> 2 [] stage = "omissions" -> 3

\* C15: the stages of one validate call are ordered and do not overlap:
\* the contradiction call has been issued only if every entailment call
\* was fulfilled and the entailment stage has returned, the omission call
\* only if the contradiction stage has returned its counts, the calls are
\* issued in the order of the stages, and the contradiction call and the
\* omission call are never in flight together, nor with an entailment call.
C15_StagesOrdered ==
    /\ chatsInFlight \in {{}, {"correct"}, {"omissions"}}
    /\ chatsInFlight # {} =>
          \A i \in 1..Len(checkPromises) : checkPromises[i].st = "fulfilled"
    /\ CallsOf("correct") # <<>> =>
          /\ "checkOutputClaims" \in returned
          /\ Len(checkPromises) = Len(sentences)
          /\ \A i \in 1..Len(checkPromises) : checkPromises[i].st = "fulfilled"
          /\ Len(checkResults) = Len(sentences)
    /\ CallsOf("omissions") # <<>> =>
          /\ "checkOutputCorrect" \in returned
          /\ Logged("VERDICT COUNTS")
          /\ "correct" \notin chatsInFlight
    /\ \A i, j \in 1..Len(issued) :
          i < j => StageRank(issued[i].stage) <= StageRank(issued[j].stage)

\* the omission call is in flight after two entailment calls and the
\* contradiction call
C15_Witness ==
    /\ chatsInFlight = {"omissions"}
    /\ vpc = "omissions"
    /\ Len(sentences) = 2
    /\ Len(issued) = 4

\* the entailment calls still in flight
PendingClaims == {i \in 1..Len(checkPromises) : checkPromises[i].st = "pending"}

\* in a step, the call of claim i goes from st to st2
ClaimGoes(i, st, st2) ==
    /\ i \in 1..Len(checkPromises) /\ Len(checkPromises') = Len(checkPromises)
    /\ checkPromises[i].st = st /\ checkPromises'[i].st = st2

\* C16: no sibling is cancelled when an entailment call rejects: the step
\* in which a call rejects leaves every other call as it was; a call still
\* in flight after validate has failed can still resolve; and when it does,
\* its CHECK CLAIM line is appended although validate has failed, and its
\* result goes nowhere: no joined array, no counts, no further call.
C16_SiblingsRunOn ==
    [][ /\ \A i \in 1..Len(checkPromises) :
              ClaimGoes(i, "pending", "rejected") =>
                  \A j \in 1..Len(checkPromises) :
                      j # i => checkPromises'[j] = checkPromises[j]
        /\ \A i \in PendingClaims :
              vpc = "failed" => ENABLED FulfilClaim(i, "Yes")
        /\ \A i \in PendingClaims :
              (vpc = "failed" /\ ClaimGoes(i, "pending", "fulfilled")) =>
                  /\ Len(log') = Len(log) + 1
                  /\ log'[Len(log')].tag = "CHECK CLAIM PROMPT"
                  /\ log'[Len(log')].idx = i
                  /\ Len(log') > failedAt
                  /\ vpc' = "failed" /\ verror' = verror
                  /\ checkResults' = <<>> /\ resCorrectM' = NoCounts
                  /\ returned' = returned /\ issued' = issued
                  /\ scores' = NoScores
      ]_vars

\* a call was answered Yes after its sibling had rejected and validate had
\* failed: its line is in the log past the point of the failure
C16_Witness ==
    /\ vpc = "failed" /\ verror = "chat rejected"
    /\ Len(checkPromises) = 2
    /\ checkPromises[1].st = "rejected"
    /\ checkPromises[2] = Fulfilled(TRUE)
    /\ Len(log) > failedAt
    /\ log[Len(log)].tag = "CHECK CLAIM PROMPT" /\ log[Len(log)].idx = 2
    /\ checkResults = <<>>

\* C17: the contradiction judge and the omission detector are each called
\* at most once, with the general model, the grounding document and the
\* whole output, which holds every claim; a validate call over N claims
\* that completes has issued N entailment calls and these two, N + 2.
C17_OneCallPerJudge ==
    /\ \A stage \in {"correct", "omissions"} :
          /\ Len(CallsOf(stage)) <= 1
          /\ \A k \in 1..Len(CallsOf(stage)) :
                LET call == CallsOf(stage)[k] IN
                /\ call.model = GeneralModel
                /\ call.document = groundingDoc
                /\ call.output = output
                /\ SentencesOf(call.output).list = sentences
    /\ vpc = "done" =>
          /\ Len(CallsOf("claims")) = Len(sentences)
          /\ Len(CallsOf("correct")) = 1
          /\ Len(CallsOf("omissions")) = 1
          /\ Len(issued) = Len(sentences) + 2

\* a call over two claims has completed with four remote calls
C17_Witness ==
    /\ vpc = "done"
    /\ Len(sentences) = 2
    /\ Len(issued) = 4
    /\ SentencesOf(issued[4].output).list = sentences

\* in a step, a remote call fails: an entailment call rejects, or a call of
\* the general model leaves flight without a response being logged
RemoteCallFails ==
    \/ \E i \in 1..Len(checkPromises) : ClaimGoes(i, "pending", "rejected")
    \/ \E stage \in chatsInFlight : stage \notin chatsInFlight' /\ log' = log

\* C18: no remote call is retried: the calls issued are only ever added
\* to and no two of them are for the same stage and claim; the step in
\* which a remote call fails issues no call and leaves validate failed;
\* and once validate has failed it stays failed and issues no call.
C18_NoRetry ==
    [][ /\ Len(issued') >= Len(issued)
        /\ SubSeq(issued', 1, Len(issued)) = issued
        /\ \A i, j \in 1..Len(issued') :
              i < j => <<issued'[i].stage, issued'[i].idx>> # <<issued'[j].stage, issued'[j].idx>>
        /\ RemoteCallFails =>
              /\ vpc' = "failed"
              /\ issued' = issued
              /\ chatsInFlight' = {}
              /\ scores' = NoScores
        /\ vpc = "failed" =>
              /\ vpc' = "failed" /\ verror' = verror
              /\ issued' = issued
              /\ chatsInFlight' = chatsInFlight
      ]_vars

\* the contradiction call was rejected after two entailment calls: validate
\* has failed with three calls issued, none of them twice and none for the
\* omission stage
C18_Witness ==
    /\ vpc = "failed" /\ verror = "chat rejected"
    /\ Len(sentences) = 2
    /\ Len(issued) = 3
    /\ Len(CallsOf("correct")) = 1 /\ CallsOf("omissions") = <<>>
    /\ chatsInFlight = {}
    /\ ~Logged("CHECK CORRECT PROMPT")

\* the CHECK CLAIM lines logged for claim i
ClaimLines(i) ==
    SelectSeq(log, LAMBDA rec : rec.tag = "CHECK CLAIM PROMPT" /\ rec.idx = i)

\* C19 as stated: every entailment call that has settled, resolved or
\* rejected, has its CHECK CLAIM record in the audit log.
C19_AsStated ==
    \A i \in 1..Len(checkPromises) :
        checkPromises[i].st # "pending" => ClaimLogged(i)

\* C19, amended: an entailment call has its CHECK CLAIM record, once, with
\* the reply that decided its result, exactly when it has resolved, also
\* when validate had failed before; a call that rejected or is still in
\* flight has none, and no record is for anything but an issued call.
C19_ResolvedCallsLogged ==
    /\ \A i \in 1..Len(checkPromises) :
          /\ checkPromises[i].st = "fulfilled" =>
                /\ Len(ClaimLines(i)) = 1
                /\ checkPromises[i].val <=> (ClaimLines(i)[1].reply = "Yes")
                /\ ClaimCallsIssued[i].claim = sentences[i]
                /\ ClaimCallsIssued[i].document = groundingDoc
          /\ checkPromises[i].st \in {"pending", "rejected"} => ClaimLines(i) = <<>>
    /\ \A j \in 1..Len(log) :
          log[j].tag = "CHECK CLAIM PROMPT" => log[j].idx \in 1..Len(ClaimCallsIssued)

\* of two calls the first rejected and has no record, the second resolved
\* after it and has one
C19_Witness ==
    /\ Len(checkPromises) = 2
    /\ checkPromises[1].st = "rejected" /\ ClaimLines(1) = <<>>
    /\ checkPromises[2].st = "fulfilled" /\ Len(ClaimLines(2)) = 1
    /\ vpc = "failed" /\ Len(log) > failedAt

\* the timing line of a stage
TimingTag(stage) ==
    CASE stage = "checkOutputClaims" -> "Time taken for checkOutputClaims"
      [] stage = "checkOutputCorrect" -> "Time taken for checkOutputCorrect"
      [] stage = "checkOutputOmissions" -> "Time taken for checkOutputOmissions"

\* the positions in the log of the lines with a tag
Positions(tag) == {j \in 1..Len(log) : log[j].tag = tag}

\* C20 as stated: when validate has ended, completed or failed, every
\* stage whose prompt/response record is in the audit log has its timing
\* record there too.
C20_AsStated ==
    vpc \in {"done", "failed"} =>
        \A stage \in AllStages :
            ResponseLogged(stage) => Logged(TimingTag(stage))

\* C20, amended: the timing records are written together, once each, after
\* the third stage has returned and before the END VALIDATION line; until
\* validate has completed, and so whenever it has failed, there is no
\* timing record, whatever prompt/response records have been appended.
C20_TimingsOnlyOnCompletion ==
    /\ vpc = "done" =>
          \A stage \in AllStages :
              /\ Cardinality(Positions(TimingTag(stage))) = 1
              /\ \A j \in Positions(TimingTag(stage)) :
                    /\ \A k \in Positions("MISSED COUNTS") : k < j
                    /\ \A k \in Positions("END VALIDATION") : j < k
    /\ vpc # "done" =>
          \A stage \in AllStages : ~Logged(TimingTag(stage))

\* validate failed in its last stage after the response of every stage had
\* been logged, and no timing record was written
C20_Witness ==
    /\ vpc = "failed"
    /\ \A stage \in AllStages : ResponseLogged(stage)
    /\ returned = {"checkOutputClaims", "checkOutputCorrect"}
    /\ \A stage \in AllStages : ~Logged(TimingTag(stage))

(***************************************************************************)
(* Further properties of the response parser (SpecStage).                  *)
(***************************************************************************)
\* the text of the response, fences stripped, decodes as JSON
DecodesAsJson == JSONParse(StripClosingFence(StripOpeningFence(content))).ok

\* the decoded value is an object without the key of the stage called
LacksStageKey == payload.t = "object" /\ GetProp(payload, StageKey) = JUndef

\* C21 as stated: a response that decodes as JSON to an object without the
\* key of the stage (verdicts, missed_facts) makes the parser raise the
\* parse failure instead of returning a payload to the stage.
C21_AsStated ==
    (stageCalled # "none" /\ DecodesAsJson /\ LacksStageKey) =>
        /\ ~extracted.ok
        /\ extracted.message = ParseFailureMessage

(***************************************************************************)
(* Properties of execute and of the judge (Spec, SpecJudge).               *)
(***************************************************************************)
\* C22: execute does not wait for validate.  In the step in which the
\* query resolves, validate is started and execute returns the grounding
\* document as a result that is no error, while validate has not
\* completed: for an output that is a claim list a remote call is in
\* flight, and otherwise validate has rejected on the output alone.  From
\* then on the result of execute never changes, whether validate completes
\* or fails, and an error result is only ever given when validate was
\* never started.
C22_ExecuteDoesNotAwait ==
    [][ /\ (epc = "querying" /\ epc' = "returned") =>
              /\ ~execResult'.isError
              /\ execResult'.text = groundingDoc'
              /\ groundingDoc' = BuildGroundingDoc(results')
              /\ vpc = "idle" /\ vpc' \notin {"idle", "done"}
              /\ scores' = NoScores
              /\ \A j \in 1..Len(log') : log'[j].tag # "END VALIDATION"
              /\ SentencesOf(output).ok =>
                    /\ vpc' \in {"claims", "correct"}
                    /\ \/ \E i \in 1..Len(checkPromises') : checkPromises'[i].st = "pending"
                       \/ chatsInFlight' # {}
              /\ vpc' = "failed" => verror' \in {"SyntaxError", "TypeError"}
        /\ epc = "returned" => (epc' = "returned" /\ execResult' = execResult)
        /\ epc' = "returned" => (~execResult'.isError /\ execResult'.text = groundingDoc')
        /\ execResult'.isError => (vpc' = "idle" /\ log' = <<>> /\ issued' = <<>>)
      ]_vars

\* validate failed on a rejected chat call after execute had returned the
\* grounding document of two passages as a result that is no error
C22_Witness ==
    /\ epc = "returned"
    /\ vpc = "failed" /\ verror = "chat rejected"
    /\ ~execResult.isError
    /\ execResult.text = groundingDoc /\ Len(groundingDoc) = 4

\* the positions of the verdicts with a label, and with none of the three
WithLabel(vs, l) == {i \in 1..Len(vs) : GetProp(vs[i], "verdict") = JStr(l)}
WithOtherLabel(vs) ==
    {i \in 1..Len(vs) : GetProp(vs[i], "verdict") \notin {JStr("yes"), JStr("no"), JStr("idk")}}

\* C23: for the verdict list the judge received, yes, no and idk are the
\* numbers of verdicts with these labels, so that their sum is at most the
\* number of verdicts and equals it only when no verdict has another
\* label; the stage returns these counts whatever the number of claims, and
\* the judge-based score of a completed call is TP / (TP + (FP + FN) / 2)
\* with TP = yes and FP = no + idk, a verdict with another label being in
\* neither.
C23_TallyCountsThreeLabels ==
    (stageCalled = "correct" /\ stageOut.ok) =>
        LET vs == extracted.v.a
            c == stageOut.counts
            fn == resHalluc.missed
        IN /\ c.yes = Cardinality(WithLabel(vs, "yes"))
           /\ c.no = Cardinality(WithLabel(vs, "no"))
           /\ c.idk = Cardinality(WithLabel(vs, "idk"))
           /\ c.yes + c.no + c.idk <= Len(vs)
           /\ (c.yes + c.no + c.idk = Len(vs)) <=> (WithOtherLabel(vs) = {})
           /\ c.yes + c.no + c.idk + Cardinality(WithOtherLabel(vs)) = Len(vs)
           /\ resCorrect = c
           /\ "checkOutputCorrect" \in returned
           /\ Logged("VERDICT COUNTS")
           /\ vpc = "failed" => ResponseLogged("checkOutputOmissions")
           /\ vpc = "done" =>
                 /\ scores.computed
                 /\ (2 * c.yes + c.no + c.idk + fn # 0) =>
                       IsFraction(scores.f1, 2 * c.yes, 2 * c.yes + c.no + c.idk + fn)
                 /\ (2 * c.yes + c.no + c.idk + fn = 0) => scores.f1 = NaN

\* a call over one claim completed on two verdicts, yes and a label that is
\* none of the three: one verdict is counted and the score is computed
C23_Witness ==
    /\ vpc = "done" /\ scores.computed
    /\ Len(sentences) = 1
    /\ stageCalled = "correct" /\ stageOut.ok
    /\ Len(extracted.v.a) = 2
    /\ WithOtherLabel(extracted.v.a) = {2}
    /\ stageOut.counts = Counts(1, 0, 0, 0)
    /\ resHalluc.missed = 0
    /\ scores.f1 = [kind |-> "finite", n |-> 1, d |-> 1]


=============================================================================
